---- MODULE Spec2Model ----
\* A model of drogon's ListenerManager (lib/src/ListenerManager.{h,cc}):
\* the declared listener store, the construction of the listening topology
\* (createListeners, both preprocessor branches), and the lifecycle calls
\* startListening / stopListening / reloadSSLFiles.
EXTENDS Integers, Sequences, FiniteSets, TLC

\* ------------------------------------------------------------------ bounds
MaxSpecs == 2       \* most addListener calls
MaxLoops == 2       \* most worker loops handed to createListeners
MaxStarts == 2      \* most startListening calls
MaxReloads == 1     \* most reloadSSLFiles calls
MaxPeers == 1       \* other processes that run createListeners on this host

\* ------------------------------------------------------------ input domains
\* Address literals an application may pass to addListener.
ValidV4 == {"127.0.0.1"}
ValidV6 == {"::1"}
Ips == ValidV4 \cup ValidV6 \cup {"not-an-ip"}
\* std::string::find(':') != npos on the literal
HasColon(ip) == ip \in {"::1"}

GlobalCerts == {"", "global.crt"}
GlobalKeys == {"", "global.key"}
\* TLS engine directives are (key, value) pairs
GlobalCmd == <<"MinProtocol", "TLSv1.2">>
SpecCmd == <<"Options", "SessionTicket">>
GlobalCmdSeqs == {<< >>, <<GlobalCmd>>}

\* ListenerInfo: the constructor stores its seven arguments unchanged.
ListenerInfo(ip, port, useSSL, certFile, keyFile, useOldTLS, sslConfCmds) ==
    [ip_ |-> ip, port_ |-> port, useSSL_ |-> useSSL, certFile_ |-> certFile,
     keyFile_ |-> keyFile, useOldTLS_ |-> useOldTLS,
     sslConfCmds_ |-> sslConfCmds]

\* The argument tuples addListener is called with: plain listeners (the
\* defaulted arguments of the declaration) and TLS listeners that override
\* both, one or none of the certificate and key paths.
ListenerInputs ==
    { ListenerInfo("127.0.0.1", 80, FALSE, "", "", FALSE, << >>),
      ListenerInfo("not-an-ip", 80, FALSE, "", "", FALSE, << >>),
      ListenerInfo("::1", 443, TRUE, "own.crt", "own.key", TRUE, <<SpecCmd>>),
      ListenerInfo("127.0.0.1", 443, TRUE, "", "", FALSE, << >>),
      ListenerInfo("127.0.0.1", 443, TRUE, "own.crt", "", FALSE, <<SpecCmd>>),
      ListenerInfo("::1", 443, TRUE, "", "own.key", TRUE, << >>) }

\* ------------------------------------------------------------------- state
VARIABLES
    isLinux,        \* the __linux__ branch of createListeners was compiled
    supportsTls,    \* utils::supportsTls()
    reusePort,      \* app().reusePort()
    listeners_,     \* std::vector<ListenerInfo>
    servers_,       \* std::vector<std::shared_ptr<HttpServer>>
    listeningThread_,   \* "null", "running", "quitting", "exited"
    beforeListenSetSockOptCallback_,    \* TRUE: a non-empty std::function
    afterAcceptSetSockOptCallback_,
    connectionCallback_,
    pc,             \* where the calling thread is
    args,           \* the arguments of the createListeners call
    i,              \* createListeners: loop index
    j,              \* createListeners / stopListening: element index
    lockHeld,       \* this process holds flock(LOCK_EX) on /tmp/drogon.lock
    created,        \* createListeners has returned
    fatal,          \* why the process terminated, "none" while it runs
    probed,         \* log of the bind probes: the spec index of each one
    peerPc          \* where each other process on the host is

env == <<isLinux, supportsTls, reusePort>>
callbacks == <<beforeListenSetSockOptCallback_, afterAcceptSetSockOptCallback_,
               connectionCallback_>>
cursor == <<args, i, j, lockHeld, created, fatal, probed>>
vars == <<env, listeners_, servers_, listeningThread_, callbacks, pc, cursor,
          peerPc>>

\* The other processes of a multi-process deployment.
Peers == 1..MaxPeers

NoArgs == [globalCertFile |-> "", globalKeyFile |-> "",
           sslConfCmds |-> << >>, ioLoops |-> << >>]

Init ==
    /\ isLinux \in BOOLEAN
    /\ supportsTls \in BOOLEAN
    /\ reusePort \in BOOLEAN
    /\ (~isLinux => ~reusePort)    \* only the __linux__ branch reads it
    /\ listeners_ = << >>
    /\ servers_ = << >>
    /\ listeningThread_ = "null"
    /\ beforeListenSetSockOptCallback_ = FALSE
    /\ afterAcceptSetSockOptCallback_ = FALSE
    /\ connectionCallback_ = FALSE
    /\ pc = "idle"
    /\ args = NoArgs
    /\ i = 0
    /\ j = 0
    /\ lockHeld = FALSE
    /\ created = FALSE
    /\ fatal = "none"
    /\ probed = << >>
    /\ peerPc = [p \in Peers |-> "idle"]

\* ------------------------------------------------------------ collaborators
\* trantor::InetAddress(ip, port, ipv6): inet_pton on the chosen family; on
\* failure the address bytes stay zero and isUnspecified() stays true.
InetAddress(ip, port, isIpv6) ==
    LET ok == IF isIpv6 THEN ip \in ValidV6 ELSE ip \in ValidV4
    IN  [ip |-> IF ok THEN ip ELSE IF isIpv6 THEN "::" ELSE "0.0.0.0",
         port |-> port, isIpV6 |-> isIpv6, isUnspecified |-> ~ok]

\* The loop of the dedicated listening thread; worker loop number n is n.
DedicatedLoop == 0

NoPolicy == [enabled |-> FALSE, certPath |-> "", keyPath |-> "",
             confCmds |-> << >>, useOldTLS |-> FALSE]

\* trantor::TLSPolicy::defaultServerPolicy(cert, key)
DefaultServerPolicy(cert, key) ==
    [enabled |-> TRUE, certPath |-> cert, keyPath |-> key,
     confCmds |-> << >>, useOldTLS |-> FALSE]

\* std::make_shared<HttpServer>(loop, address, "drogon")
NewHttpServer(loop, address) ==
    [loop |-> loop, address |-> address,
     beforeListenCb |-> FALSE, afterAcceptCb |-> FALSE, connectionCb |-> FALSE,
     policy |-> NoPolicy, ioLoops |-> << >>,
     starts |-> 0, stopped |-> FALSE, reloads |-> 0, reloadFailed |-> FALSE]

\* ------------------------------------------------- createListeners: helpers
\* listenAddress of a declared spec: a literal with a colon is IPv6
ListenAddress(listener) ==
    InetAddress(listener.ip_, listener.port_, HasColon(listener.ip_))

\* the three `if (callback_) serverPtr->set...(callback_)` of the linux branch
InstallCallbacks(server) ==
    [server EXCEPT
        !.beforeListenCb = beforeListenSetSockOptCallback_,
        !.afterAcceptCb = afterAcceptSetSockOptCallback_,
        !.connectionCb = connectionCallback_]

\* the #else branch installs no callback on the servers it makes
ElseInstallCallbacks(server) == server

\* variant: the TLS capability of the build is not consulted
SslRequestedIgnoringCapability(listener) == listener.useSSL_

\* if (listener.useSSL_ && utils::supportsTls())
SslRequested(listener) == listener.useSSL_ /\ supportsTls

\* variant: a non-empty global certificate wins over the spec's own
EffectiveCertGlobalFirst(listener, a) ==
    IF a.globalCertFile # "" THEN a.globalCertFile ELSE listener.certFile_

\* cert = listener.certFile_; if (cert.empty()) cert = globalCertFile;
EffectiveCert(listener, a) ==
    IF listener.certFile_ = "" THEN a.globalCertFile ELSE listener.certFile_

\* key = listener.keyFile_; if (key.empty()) key = globalKeyFile;
EffectiveKey(listener, a) ==
    IF listener.keyFile_ = "" THEN a.globalKeyFile ELSE listener.keyFile_

\* variant: && in place of ||, fatal only when both paths are empty
MissingTlsMaterialBoth(listener, a) ==
    EffectiveCert(listener, a) = "" /\ EffectiveKey(listener, a) = ""

\* if (cert.empty() || key.empty()) ... exit(1)
MissingTlsMaterial(listener, a) ==
    EffectiveCert(listener, a) = "" \/ EffectiveKey(listener, a) = ""

\* linux branch: cmds = sslConfCmds; std::copy(listener.sslConfCmds_, back_inserter(cmds))
LinuxConfCmds(listener, a) == a.sslConfCmds \o listener.sslConfCmds_

\* #else branch: cmds = sslConfCmds; nothing is appended
ElseConfCmds(listener, a) == a.sslConfCmds

\* policy->setConfCmds(cmds).setUseOldTLS(listener.useOldTLS_); enableSSL(policy)
EnableSSL(server, listener, a, cmds) ==
    [server EXCEPT !.policy =
        [DefaultServerPolicy(EffectiveCert(listener, a), EffectiveKey(listener, a))
            EXCEPT !.confCmds = cmds, !.useOldTLS = listener.useOldTLS_]]

\* the server the linux branch pushes for loop index idx and a declared spec
LinuxServer(idx, listener, a) ==
    LET plain == InstallCallbacks(
                    NewHttpServer(a.ioLoops[idx + 1], ListenAddress(listener)))
    IN  IF SslRequested(listener)
        THEN EnableSSL(plain, listener, a, LinuxConfCmds(listener, a))
        ELSE plain

\* variant: setIoLoops(ioLoops) is left out
ElseServerWithoutIoLoops(listener, a) ==
    LET plain == ElseInstallCallbacks(
                    NewHttpServer(DedicatedLoop, ListenAddress(listener)))
    IN  IF SslRequested(listener)
        THEN EnableSSL(plain, listener, a, ElseConfCmds(listener, a))
        ELSE plain

\* the server the #else branch pushes for a declared spec
ElseServer(listener, a) ==
    LET plain == ElseInstallCallbacks(
                    NewHttpServer(DedicatedLoop, ListenAddress(listener)))
        tls == IF SslRequested(listener)
               THEN EnableSSL(plain, listener, a, ElseConfCmds(listener, a))
               ELSE plain
    IN  [tls EXCEPT !.ioLoops = a.ioLoops]

\* exit status seen by the parent: abort() raises SIGABRT, exit(1) is 1
ExitStatus(f) ==
    IF f = "none" THEN 0 ELSE IF f = "abort" THEN 134 ELSE 1

\* the process is gone: the kernel drops its flock with its descriptors
Terminate(why) ==
    /\ pc' = "terminated"
    /\ fatal' = why
    /\ lockHeld' = FALSE

\* ------------------------------------------------------------- addListener
AddListener(info) ==
    /\ pc = "idle"
    /\ Len(listeners_) < MaxSpecs
    /\ listeners_' = Append(listeners_, info)
    /\ UNCHANGED <<env, peerPc, servers_, listeningThread_, callbacks, pc, cursor>>

\* ------------------------------------------------------------ getListeners
\* variant: each address is put at the front of the result
GetListenersReversed(servers) ==
    [n \in 1..Len(servers) |-> servers[Len(servers) - n + 1].address]

\* for (auto &server : servers_) listeners.emplace_back(server->address());
GetListeners(servers) ==
    [n \in 1..Len(servers) |-> servers[n].address]

\* ----------------------------------------------------------------- setters
\* The application sets the callbacks before it triggers createListeners.
SetBeforeListenSockOptCallback(cb) ==
    /\ pc = "idle"
    /\ ~created
    /\ beforeListenSetSockOptCallback_' = cb
    /\ UNCHANGED <<env, peerPc, listeners_, servers_, listeningThread_,
                   afterAcceptSetSockOptCallback_, connectionCallback_, pc, cursor>>

SetAfterAcceptSockOptCallback(cb) ==
    /\ pc = "idle"
    /\ ~created
    /\ afterAcceptSetSockOptCallback_' = cb
    /\ UNCHANGED <<env, peerPc, listeners_, servers_, listeningThread_,
                   beforeListenSetSockOptCallback_, connectionCallback_, pc, cursor>>

SetConnectionCallback(cb) ==
    /\ pc = "idle"
    /\ ~created
    /\ connectionCallback_' = cb
    /\ UNCHANGED <<env, peerPc, listeners_, servers_, listeningThread_,
                   beforeListenSetSockOptCallback_,
                   afterAcceptSetSockOptCallback_, pc, cursor>>

\* --------------------------------------------------------- createListeners
\* The arguments HttpAppFrameworkImpl::run passes: the global certificate
\* and key paths, the global directives and the worker loops 1..n.
CreateArgs ==
    { [globalCertFile |-> c, globalKeyFile |-> k, sslConfCmds |-> d,
       ioLoops |-> [n \in 1..nLoops |-> n]] :
        c \in GlobalCerts, k \in GlobalKeys, d \in GlobalCmdSeqs,
        nLoops \in 0..MaxLoops }

\* the calls that pass no global directive
ArgsWithoutDirectives == {a \in CreateArgs : a.sslConfCmds = << >>}

\* createListeners returns to its caller
ReturnFromCreate ==
    /\ pc' = "idle"
    /\ created' = TRUE
    /\ i' = 0
    /\ j' = 0

\* Entry. The framework calls it once, from run(), after the declarations.
\* linux: both loops are empty when there is no loop or no spec.
\* #else: nothing happens without a spec; otherwise the listening thread is
\* made and run before the first spec is looked at.
CreateListeners(a) ==
    /\ pc = "idle"
    /\ ~created
    /\ args' = a
    /\ IF isLinux
       THEN /\ IF Len(a.ioLoops) = 0 \/ Len(listeners_) = 0
               THEN ReturnFromCreate
               ELSE pc' = "parse" /\ i' = 0 /\ j' = 0 /\ created' = created
            /\ UNCHANGED listeningThread_
       ELSE IF Len(listeners_) = 0
            THEN ReturnFromCreate /\ UNCHANGED listeningThread_
            ELSE /\ listeningThread_' = "running"
                 /\ pc' = "else_construct" /\ i' = 0 /\ j' = 0
                 /\ created' = created
    /\ UNCHANGED <<env, peerPc, listeners_, servers_, callbacks, lockHeld, fatal,
                   probed>>

\* variant: the loop index is not consulted
NeedsProbeEveryLoop(idx) == ~reusePort

\* linux, top of the inner loop body: parse the address, abort() if it did
\* not parse, and decide whether this iteration runs the bind probe.
NeedsProbe(idx) == idx = 0 /\ ~reusePort

LinuxParse ==
    /\ pc = "parse"
    /\ IF ListenAddress(listeners_[j + 1]).isUnspecified
       THEN Terminate("abort")
       ELSE /\ pc' = IF NeedsProbe(i) THEN "lock" ELSE "construct"
            /\ UNCHANGED <<fatal, lockHeld>>
    /\ UNCHANGED <<env, peerPc, listeners_, servers_, listeningThread_, callbacks,
                   args, probed, i, j, created>>

\* variant: a peer keeps its descriptor, and the lock, for as long as it runs
PeerHoldsLockUntilExit ==
    \E p \in Peers : peerPc[p] \in {"probe", "unlock", "construct", "done"}

\* flock(LOCK_EX) is exclusive over the open file descriptions of the host:
\* a peer holds it from its own flock until its descriptor is closed.
PeerHoldsLock == \E p \in Peers : peerPc[p] \in {"probe", "unlock"}

\* variant: the lock is taken shared (LOCK_SH), other holders do not block it
LinuxLockShared ==
    /\ pc = "lock"
    /\ lockHeld' = TRUE
    /\ pc' = "probe"
    /\ UNCHANGED <<env, peerPc, listeners_, servers_, listeningThread_, callbacks,
                   args, probed, i, j, created, fatal>>

\* DrogonFileLocker lock; open + flock(LOCK_EX) blocks until no other open
\* file description holds the lock and returns holding it
LinuxLock ==
    /\ pc = "lock"
    /\ ~lockHeld
    /\ ~PeerHoldsLock
    /\ lockHeld' = TRUE
    /\ pc' = "probe"
    /\ UNCHANGED <<env, peerPc, listeners_, servers_, listeningThread_, callbacks,
                   args, probed, i, j, created, fatal>>

\* The constructor of trantor::TcpServer binds the address; a bind that
\* fails because the address is in use ends the process.
ProbeOutcome(inUse) == IF inUse THEN "fatal" ELSE "bound"

\* variant: the outcome of the probe's bind is not acted on
LinuxProbeIgnoringOutcome(inUse) ==
    /\ pc = "probe"
    /\ probed' = Append(probed, j + 1)
    /\ pc' = "unlock"
    /\ UNCHANGED <<env, peerPc, listeners_, servers_, listeningThread_, callbacks,
                   args, i, j, created, fatal, lockHeld>>

\* TcpServer server(loop, listenAddress, "drogonPortTest", true, false):
\* the constructor binds without SO_REUSEPORT, inside the lock.
LinuxProbe(inUse) ==
    /\ pc = "probe"
    /\ probed' = Append(probed, j + 1)
    /\ IF ProbeOutcome(inUse) = "fatal"
       THEN Terminate("bind")
       ELSE pc' = "unlock" /\ UNCHANGED <<fatal, lockHeld>>
    /\ UNCHANGED <<env, peerPc, listeners_, servers_, listeningThread_, callbacks,
                   args, i, j, created>>

\* variant: the destructor does not close the descriptor
LinuxUnlockLeakingDescriptor ==
    /\ pc = "unlock"
    /\ pc' = "construct"
    /\ UNCHANGED <<env, peerPc, listeners_, servers_, listeningThread_, callbacks,
                   args, probed, i, j, created, fatal, lockHeld>>

\* end of the probe's block: ~TcpServer then ~DrogonFileLocker (close(fd_))
LinuxUnlock ==
    /\ pc = "unlock"
    /\ lockHeld' = FALSE
    /\ pc' = "construct"
    /\ UNCHANGED <<env, peerPc, listeners_, servers_, listeningThread_, callbacks,
                   args, probed, i, j, created, fatal>>

\* ------------------------------------------- createListeners in a peer
\* A peer is another process of the same deployment: it runs the linux
\* branch with port sharing disabled, one worker loop and one declared spec,
\* the address below.
PeerAddress == InetAddress("127.0.0.1", 80, FALSE)

\* this process has a server bound to the address
SelfBinds(addr) ==
    /\ pc # "terminated"
    /\ \E n \in 1..Len(servers_) : servers_[n].address = addr

\* peer p has a server bound to the address
PeerBinds(p, addr) == peerPc[p] = "done" /\ addr = PeerAddress

\* what the probe of the current spec meets: a peer is bound to its address
InUseByPeer ==
    \E p \in Peers : PeerBinds(p, ListenAddress(listeners_[j + 1]))

\* entry and top of the loop body: i = 0, the address parses, the probe is due
PeerCreate(p) ==
    /\ peerPc[p] = "idle"
    /\ peerPc' = [peerPc EXCEPT ![p] = "lock"]
    /\ UNCHANGED <<env, listeners_, servers_, listeningThread_, callbacks, pc,
                   cursor>>

\* DrogonFileLocker lock; in the peer
PeerLock(p) ==
    /\ peerPc[p] = "lock"
    /\ ~lockHeld
    /\ ~PeerHoldsLock
    /\ peerPc' = [peerPc EXCEPT ![p] = "probe"]
    /\ UNCHANGED <<env, listeners_, servers_, listeningThread_, callbacks, pc,
                   cursor>>

\* the "drogonPortTest" server of the peer: the bind fails, and the peer
\* exits, when this process or another peer is bound to the address
PeerProbe(p) ==
    /\ peerPc[p] = "probe"
    /\ peerPc' = [peerPc EXCEPT ![p] =
            IF ProbeOutcome(\/ SelfBinds(PeerAddress)
                            \/ \E q \in Peers \ {p} :
                                  PeerBinds(q, PeerAddress)) = "fatal"
            THEN "terminated"
            ELSE "unlock"]
    /\ UNCHANGED <<env, listeners_, servers_, listeningThread_, callbacks, pc,
                   cursor>>

\* end of the probe's block in the peer: the probe socket and the lock go
PeerUnlock(p) ==
    /\ peerPc[p] = "unlock"
    /\ peerPc' = [peerPc EXCEPT ![p] = "construct"]
    /\ UNCHANGED <<env, listeners_, servers_, listeningThread_, callbacks, pc,
                   cursor>>

\* the peer makes its HttpServer (bound with SO_REUSEPORT), pushes it and
\* returns from createListeners
PeerConstruct(p) ==
    /\ peerPc[p] = "construct"
    /\ peerPc' = [peerPc EXCEPT ![p] = "done"]
    /\ UNCHANGED <<env, listeners_, servers_, listeningThread_, callbacks, pc,
                   cursor>>

\* variant: the outer loop over ioLoops runs for index 0 only
LinuxAdvanceFirstLoopOnly ==
    IF j + 1 < Len(listeners_)
    THEN pc' = "parse" /\ j' = j + 1 /\ UNCHANGED <<i, created>>
    ELSE ReturnFromCreate

\* the next (i, j) of `for i ... for listener ...`, or the return
LinuxAdvance ==
    IF j + 1 < Len(listeners_)
    THEN pc' = "parse" /\ j' = j + 1 /\ UNCHANGED <<i, created>>
    ELSE IF i + 1 < Len(args.ioLoops)
         THEN pc' = "parse" /\ i' = i + 1 /\ j' = 0 /\ UNCHANGED created
         ELSE ReturnFromCreate

\* linux, rest of the body: make the server, install the callbacks, resolve
\* the TLS material (exit(1) when it is missing), push the server.
LinuxConstruct ==
    /\ pc = "construct"
    /\ LET listener == listeners_[j + 1]
       IN  IF SslRequested(listener) /\ MissingTlsMaterial(listener, args)
           THEN /\ Terminate("exit")
                /\ UNCHANGED <<servers_, i, j, created>>
           ELSE /\ servers_' = Append(servers_, LinuxServer(i, listener, args))
                /\ LinuxAdvance
                /\ UNCHANGED <<fatal, lockHeld>>
    /\ UNCHANGED <<env, peerPc, listeners_, listeningThread_, callbacks, args,
                   probed>>

\* #else, one iteration of `for listener`: make the server on the dedicated
\* loop, resolve the TLS material, hand it the worker loops, push it.
ElseConstruct ==
    /\ pc = "else_construct"
    /\ LET listener == listeners_[j + 1]
       IN  IF SslRequested(listener) /\ MissingTlsMaterial(listener, args)
           THEN /\ Terminate("exit")
                /\ UNCHANGED <<servers_, i, j, created>>
           ELSE /\ servers_' = Append(servers_, ElseServer(listener, args))
                /\ IF j + 1 < Len(listeners_)
                   THEN pc' = pc /\ j' = j + 1 /\ UNCHANGED <<i, created>>
                   ELSE ReturnFromCreate
                /\ UNCHANGED <<fatal, lockHeld>>
    /\ UNCHANGED <<env, peerPc, listeners_, listeningThread_, callbacks, args,
                   probed>>

\* ---------------------------------------------------------- startListening
\* HttpServer::start() of one instance
Start(server) == [server EXCEPT !.starts = @ + 1]

StartListening ==
    /\ pc = "idle"
    /\ \A n \in 1..Len(servers_) : servers_[n].starts < MaxStarts
    /\ servers_' = [n \in 1..Len(servers_) |-> Start(servers_[n])]
    /\ UNCHANGED <<env, peerPc, listeners_, listeningThread_, callbacks, pc, cursor>>

\* ----------------------------------------------------------- stopListening
\* HttpServer::stop() of one instance
Stop(server) == [server EXCEPT !.stopped = TRUE]

\* entry, called from a thread that is not the dedicated loop's thread
StopListening ==
    /\ pc = "idle"
    /\ pc' = "stop_servers"
    /\ j' = 0
    /\ UNCHANGED <<env, peerPc, listeners_, servers_, listeningThread_, callbacks,
                   args, probed, i, lockHeld, created, fatal>>

\* one iteration of `for (auto &serverPtr : servers_) serverPtr->stop();`
StopServer ==
    /\ pc = "stop_servers"
    /\ j < Len(servers_)
    /\ servers_' = [servers_ EXCEPT ![j + 1] = Stop(@)]
    /\ j' = j + 1
    /\ UNCHANGED <<env, peerPc, listeners_, listeningThread_, callbacks, pc,
                   args, probed, i, lockHeld, created, fatal>>

\* variant: the quit does not wait for the loop over servers_ to finish
StopQuitBeforeStopping ==
    /\ pc = "stop_servers"
    /\ j' = 0
    /\ IF listeningThread_ = "null"
       THEN pc' = "idle" /\ UNCHANGED listeningThread_
       ELSE /\ pc' = "stop_wait"
            /\ listeningThread_' =
                  IF listeningThread_ = "running" THEN "quitting"
                  ELSE listeningThread_
    /\ UNCHANGED <<env, peerPc, listeners_, servers_, callbacks,
                   args, probed, i, lockHeld, created, fatal>>

\* after the loop: if (listeningThread_) { loop->quit(); ... } else return
StopQuit ==
    /\ pc = "stop_servers"
    /\ j = Len(servers_)
    /\ j' = 0
    /\ IF listeningThread_ = "null"
       THEN pc' = "idle" /\ UNCHANGED listeningThread_
       ELSE /\ pc' = "stop_wait"
            /\ listeningThread_' =
                  IF listeningThread_ = "running" THEN "quitting"
                  ELSE listeningThread_
    /\ UNCHANGED <<env, peerPc, listeners_, servers_, callbacks,
                   args, probed, i, lockHeld, created, fatal>>

\* the dedicated thread: its loop sees the quit flag and the thread ends
ListeningThreadExit ==
    /\ listeningThread_ = "quitting"
    /\ listeningThread_' = "exited"
    /\ UNCHANGED <<env, peerPc, listeners_, servers_, callbacks, pc, cursor>>

\* listeningThread_->wait() returns once the thread has ended
StopWait ==
    /\ pc = "stop_wait"
    /\ listeningThread_ = "exited"
    /\ pc' = "idle"
    /\ UNCHANGED <<env, peerPc, listeners_, servers_, listeningThread_, callbacks,
                   cursor>>

\* ---------------------------------------------------------- reloadSSLFiles
\* The certificate files a reload finds unusable at the time of the call.
BadCertSets == {{}, {"own.crt"}}

\* HttpServer::reloadSSL(): an instance without a TLS policy ignores the
\* request; a TLS instance re-reads its files and reports a failure itself.
ReloadSSL(server, bad) ==
    IF server.policy.enabled
    THEN [server EXCEPT !.reloads = @ + 1,
                        !.reloadFailed = (server.policy.certPath \in bad)]
    ELSE server

\* variant: the loop ends at the first instance whose reload fails
ReloadAllUntilFailure(servers, bad) ==
    [n \in 1..Len(servers) |->
        IF \E m \in 1..(n - 1) :
              servers[m].policy.enabled /\ servers[m].policy.certPath \in bad
        THEN servers[n]
        ELSE ReloadSSL(servers[n], bad)]

\* for (auto &server : servers_) server->reloadSSL();
ReloadAll(servers, bad) ==
    [n \in 1..Len(servers) |-> ReloadSSL(servers[n], bad)]

ReloadSSLFiles(bad) ==
    /\ pc = "idle"
    /\ \A n \in 1..Len(servers_) : servers_[n].reloads < MaxReloads
    /\ servers_' = ReloadAll(servers_, bad)
    /\ UNCHANGED <<env, peerPc, listeners_, listeningThread_, callbacks, pc, cursor>>

Next ==
    \/ \E info \in ListenerInputs : AddListener(info)
    \/ \E cb \in BOOLEAN : SetBeforeListenSockOptCallback(cb)
    \/ \E cb \in BOOLEAN : SetAfterAcceptSockOptCallback(cb)
    \/ \E cb \in BOOLEAN : SetConnectionCallback(cb)
    \/ \E a \in CreateArgs : CreateListeners(a)
    \/ LinuxParse
    \/ LinuxLock
    \/ \E inUse \in BOOLEAN : LinuxProbe(inUse)
    \/ LinuxUnlock
    \/ LinuxConstruct
    \/ ElseConstruct
    \/ StartListening
    \/ StopListening
    \/ StopServer
    \/ StopQuit
    \/ ListeningThreadExit
    \/ StopWait
    \/ \E bad \in BadCertSets : ReloadSSLFiles(bad)

Spec == Init /\ [][Next]_vars

\* Declaration and topology construction alone: the lifecycle calls run only
\* between calls and change no field that createListeners reads or writes.
NextTopology ==
    \/ \E info \in ListenerInputs : AddListener(info)
    \/ \E cb \in BOOLEAN : SetBeforeListenSockOptCallback(cb)
    \/ \E cb \in BOOLEAN : SetAfterAcceptSockOptCallback(cb)
    \/ \E cb \in BOOLEAN : SetConnectionCallback(cb)
    \/ \E a \in CreateArgs : CreateListeners(a)
    \/ LinuxParse
    \/ LinuxLock
    \/ \E inUse \in BOOLEAN : LinuxProbe(inUse)
    \/ LinuxUnlock
    \/ LinuxConstruct
    \/ ElseConstruct

SpecTopology == Init /\ [][NextTopology]_vars

\* Declaration, construction and the lifecycle calls, with the three
\* callbacks left unset and no global directive: no lifecycle call reads
\* them.
NextLifecycle ==
    \/ \E info \in ListenerInputs : AddListener(info)
    \/ \E a \in ArgsWithoutDirectives : CreateListeners(a)
    \/ LinuxParse
    \/ LinuxLock
    \/ \E inUse \in BOOLEAN : LinuxProbe(inUse)
    \/ LinuxUnlock
    \/ LinuxConstruct
    \/ ElseConstruct
    \/ StartListening
    \/ StopListening
    \/ StopServer
    \/ StopQuit
    \/ ListeningThreadExit
    \/ StopWait
    \/ \E bad \in BadCertSets : ReloadSSLFiles(bad)

SpecLifecycle == Init /\ [][NextLifecycle]_vars

\* The linux build with port sharing disabled, next to its peers: the bind
\* probe of this process meets the servers the peers have bound. The build
\* is TLS capable, so that the exit(1) of a spec without certificate is one
\* of the ways out.
InitGuard == Init /\ isLinux /\ ~reusePort /\ supportsTls

CreateStep ==
    \/ LinuxParse
    \/ LinuxLock
    \/ LinuxProbe(InUseByPeer)
    \/ LinuxUnlock
    \/ LinuxConstruct

PeerStep(p) ==
    \/ PeerLock(p)
    \/ PeerProbe(p)
    \/ PeerUnlock(p)
    \/ PeerConstruct(p)

NextGuard ==
    \/ \E info \in ListenerInputs : AddListener(info)
    \/ \E a \in ArgsWithoutDirectives : CreateListeners(a)
    \/ CreateStep
    \/ \E p \in Peers : PeerCreate(p)
    \/ \E p \in Peers : PeerStep(p)

SpecGuard == InitGuard /\ [][NextGuard]_vars

\* The declarations that leave the certificate and key to the globals: one
\* on the peers' address, one that does not parse, one with TLS.
LiveInputs ==
    {info \in ListenerInputs : info.certFile_ = "" /\ info.keyFile_ = ""}

NextGuardLive ==
    \/ \E info \in LiveInputs : AddListener(info)
    \/ \E a \in ArgsWithoutDirectives : CreateListeners(a)
    \/ CreateStep
    \/ \E p \in Peers : PeerCreate(p)
    \/ \E p \in Peers : PeerStep(p)

\* A process that is running createListeners is scheduled: its next
\* statement is executed once it can be, and flock returns once the lock is
\* free for good.
SpecGuardFair ==
    /\ InitGuard /\ [][NextGuardLive]_vars
    /\ WF_vars(CreateStep)
    /\ \A p \in Peers : WF_vars(PeerStep(p))

\* ============================================================ properties
\* the step on which createListeners returns to its caller
CreateReturns == ~created /\ created'

\* a step of createListeners that pushes a server made from the current spec
PushStep == Len(servers_') = Len(servers_) + 1
Pushed == servers_'[Len(servers_')]
Current == listeners_[j + 1]

\* N x M servers; the server for loop index ii and spec jj is the one at
\* position ii * M + jj + 1 and no other takes that (loop, spec) pair
TopologyA(servers, listeners, a) ==
    LET N == Len(a.ioLoops)
        M == Len(listeners)
    IN  /\ Len(servers) = N * M
        /\ \A ii \in 0..(N - 1), jj \in 0..(M - 1) :
              /\ servers[ii * M + jj + 1].address = ListenAddress(listeners[jj + 1])
              /\ { n \in 1..Len(servers) :
                      servers[n].loop = a.ioLoops[ii + 1] /\ (n - 1) % M = jj }
                 = { ii * M + jj + 1 }

\* C1: in the linux branch createListeners returns with exactly N x M
\* servers in the registry, one for every pair of a worker loop index ii and
\* a declared spec jj: it is bound to loop ii, has spec jj's address, and no
\* other server takes that (loop, spec) pair.
C1_PerLoopTopology ==
    [][(isLinux /\ CreateReturns) => TopologyA(servers_', listeners_', args')]_vars

C1_Witness ==
    /\ isLinux /\ created /\ pc = "idle"
    /\ Len(args.ioLoops) = 2 /\ Len(listeners_) = 2 /\ Len(servers_) = 4

\* the thread exists iff a spec was declared; one server per spec, on the
\* dedicated loop, holding all the worker loops
TopologyB(servers, listeners, a, thread) ==
    /\ (thread # "null") <=> (Len(listeners) >= 1)
    /\ Len(listeners) >= 1 => thread = "running"
    /\ Len(servers) = Len(listeners)
    /\ \A n \in 1..Len(servers) :
          /\ servers[n].loop = DedicatedLoop
          /\ servers[n].ioLoops = a.ioLoops
          /\ servers[n].address = ListenAddress(listeners[n])

\* C2: in the #else branch createListeners returns with the listening thread
\* running exactly when a spec was declared, and with one server per spec,
\* each on the dedicated loop and holding all the worker loops; in the linux
\* branch there is never a listening thread.
C2_DedicatedThreadTopology ==
    /\ [][(~isLinux /\ CreateReturns) =>
            TopologyB(servers_', listeners_', args', listeningThread_')]_vars
    /\ [](isLinux => listeningThread_ = "null")

C2_Witness ==
    /\ ~isLinux /\ created /\ listeningThread_ = "running"
    /\ Len(servers_) = 2 /\ Len(args.ioLoops) = 2

\* C3: every server pushed with TLS enabled has the spec's certificate
\* path when that is non-empty and the global one otherwise, and likewise,
\* independently, for the key path.
C3_CertKeyResolution ==
    [][(PushStep /\ Pushed.policy.enabled) =>
        /\ Pushed.policy.certPath =
              IF Current.certFile_ # "" THEN Current.certFile_
              ELSE args.globalCertFile
        /\ Pushed.policy.keyPath =
              IF Current.keyFile_ # "" THEN Current.keyFile_
              ELSE args.globalKeyFile]_vars

C3_Witness ==
    \E n \in 1..Len(servers_) :
        /\ servers_[n].policy.enabled
        /\ servers_[n].policy.certPath = "own.crt"
        /\ servers_[n].policy.keyPath = "global.key"
        /\ args.globalCertFile = "global.crt"

\* the spec's own path and the global path are both empty, for the
\* certificate or for the key
MissingMaterial(listener, a) ==
    \/ (listener.certFile_ = "" /\ a.globalCertFile = "")
    \/ (listener.keyFile_ = "" /\ a.globalKeyFile = "")

\* C4: when createListeners reaches the TLS block of a spec with useSSL set,
\* TLS capability present and an empty effective certificate or key, the
\* process terminates with a nonzero status without pushing a server or
\* returning; no server ever has TLS enabled with an empty path.
C4_FatalWithoutMaterial ==
    /\ [][(/\ pc \in {"construct", "else_construct"}
           /\ Current.useSSL_ /\ supportsTls
           /\ MissingMaterial(Current, args)) =>
            /\ pc' = "terminated"
            /\ ExitStatus(fatal') # 0
            /\ servers_' = servers_
            /\ created' = created]_vars
    /\ [](\A n \in 1..Len(servers_) :
            servers_[n].policy.enabled =>
                servers_[n].policy.certPath # "" /\ servers_[n].policy.keyPath # "")

C4_Witness ==
    /\ pc = "terminated" /\ fatal = "exit" /\ ~created
    /\ \E n \in 1..Len(listeners_) :
          listeners_[n].useSSL_ /\ MissingMaterial(listeners_[n], args)

\* C5: every server pushed with TLS enabled was given the global directives
\* followed by the spec's own directives.
C5_DirectivesAppended ==
    [][(PushStep /\ Pushed.policy.enabled) =>
        Pushed.policy.confCmds = args.sslConfCmds \o Current.sslConfCmds_]_vars

\* C6: when createListeners reaches a spec whose address did not parse, the
\* process terminates there, without pushing a server and without returning.
C6_AbortOnUnparseable ==
    [][(/\ pc \in {"parse", "else_construct"}
        /\ ListenAddress(Current).isUnspecified) =>
            /\ pc' = "terminated"
            /\ servers_' = servers_
            /\ created' = created]_vars

\* C7: every server createListeners pushes carries each of the three
\* callbacks exactly when that callback was set on the manager.
C7_CallbacksInstalled ==
    [][PushStep =>
        /\ Pushed.beforeListenCb = beforeListenSetSockOptCallback_
        /\ Pushed.afterAcceptCb = afterAcceptSetSockOptCallback_
        /\ Pushed.connectionCb = connectionCallback_]_vars

\* C8: whenever the dedicated loop has been told to quit or its thread has
\* ended, every server on that loop has been stopped; and stopListening is
\* still waiting for as long as the thread has not ended.
C8_StopBeforeQuit ==
    /\ listeningThread_ \in {"quitting", "exited"} =>
          \A n \in 1..Len(servers_) :
              servers_[n].loop = DedicatedLoop => servers_[n].stopped
    /\ listeningThread_ = "quitting" => pc = "stop_wait"

C8_Witness ==
    /\ listeningThread_ = "exited" /\ pc = "idle"
    /\ Len(servers_) = 2
    /\ \A n \in 1..Len(servers_) : servers_[n].stopped

\* C9: every TLS-enabled server has received as many reload requests as any
\* other, whether or not a reload failed, and a server without TLS has
\* received none and reports no failure.
C9_ReloadReachesAll ==
    \A n \in 1..Len(servers_) :
        IF servers_[n].policy.enabled
        THEN \A m \in 1..Len(servers_) :
                servers_[m].policy.enabled =>
                    servers_[m].reloads = servers_[n].reloads
        ELSE servers_[n].reloads = 0 /\ ~servers_[n].reloadFailed

C9_Witness ==
    \E n, m \in 1..Len(servers_) :
        /\ n < m
        /\ servers_[n].policy.enabled /\ servers_[n].reloadFailed
        /\ servers_[m].policy.enabled /\ ~servers_[m].reloadFailed
        /\ servers_[m].reloads = 1

\* C10: without TLS capability, createListeners pushes a plain server for a
\* spec declared with useSSL and does not terminate the process for missing
\* certificate or key paths.
C10_NoTlsCapabilityIsPlain ==
    [][(/\ ~supportsTls
        /\ pc \in {"construct", "else_construct"}
        /\ Current.useSSL_) =>
            /\ PushStep
            /\ ~Pushed.policy.enabled
            /\ fatal' = "none"]_vars

C10_Witness ==
    /\ ~supportsTls /\ created /\ fatal = "none"
    /\ args.globalCertFile = "" /\ args.globalKeyFile = ""
    /\ \E n \in 1..Len(servers_) :
          /\ n <= Len(listeners_)
          /\ listeners_[n].useSSL_
          /\ listeners_[n].certFile_ = "" /\ listeners_[n].keyFile_ = ""
          /\ ~servers_[n].policy.enabled

\* C11: getListeners returns one address per realized server, in registry
\* order, each the address of that server; the result is empty before
\* createListeners has run, whatever was declared, and empty after a
\* createListeners that had no declared spec.
C11_GetListenersMirrorsRegistry ==
    LET result == GetListeners(servers_)
    IN  /\ Len(result) = Len(servers_)
        /\ \A n \in 1..Len(servers_) : result[n] = servers_[n].address
        /\ (pc = "idle" /\ ~created) => result = << >>
        /\ (created /\ Len(listeners_) = 0) => result = << >>

C11_Witness ==
    /\ created
    /\ Len(GetListeners(servers_)) >= 2
    /\ GetListeners(servers_)[1] # GetListeners(servers_)[2]
    /\ GetListeners(servers_)[1] = ListenAddress(listeners_[1])

\* C12: once stopListening has stopped a server, no later startListening
\* starts any server: the start count of every server stays what it was.
C12_NoStartAfterStop ==
    [][(\E n \in 1..Len(servers_) : servers_[n].stopped) =>
            /\ Len(servers_') = Len(servers_)
            /\ \A n \in 1..Len(servers_) :
                  servers_'[n].starts = servers_[n].starts]_vars

\* C13: the spec store only grows at its end and no step changes a spec
\* already in it; once createListeners has returned, no step changes the
\* store at all, addListener included.
C13_StoreFrozenAfterCreate ==
    [][/\ Len(listeners_') >= Len(listeners_)
       /\ \A n \in 1..Len(listeners_) : listeners_'[n] = listeners_[n]
       /\ created => listeners_' = listeners_]_vars

\* C14: with port sharing disabled, when the probe of a spec meets an
\* address a peer is bound to, the process terminates on that step with a
\* non-zero status: no server is made for the spec, and a terminated
\* process makes no server and never returns from createListeners.
C14_ProbeFailureIsFatal ==
    [][/\ (pc = "probe" /\ InUseByPeer /\ pc' # pc) =>
            /\ pc' = "terminated"
            /\ ExitStatus(fatal') # 0
            /\ servers_' = servers_
            /\ ~created'
       /\ pc = "terminated" =>
            /\ pc' = "terminated"
            /\ servers_' = servers_
            /\ created' = created]_vars

C14_Witness ==
    /\ pc = "terminated" /\ fatal = "bind" /\ ~created
    /\ probed = <<1, 2>>
    /\ Len(servers_) = 1
    /\ ListenAddress(listeners_[2]) = PeerAddress
    /\ \E p \in Peers : peerPc[p] = "done"

\* C15: when the process has terminated on a spec declared with useSSL
\* whose own and global certificate and key paths are all empty, no server
\* in the registry is TLS-enabled, whatever was declared before that spec
\* and however many loops there are.
C15_NoTlsServerAtExit ==
    (/\ fatal = "exit"
     /\ listeners_[j + 1].certFile_ = "" /\ listeners_[j + 1].keyFile_ = ""
     /\ args.globalCertFile = "" /\ args.globalKeyFile = "") =>
        \A n \in 1..Len(servers_) : ~servers_[n].policy.enabled

\* how many probes of spec number n the log holds
ProbesOf(n) == Cardinality({k \in 1..Len(probed) : probed[k] = n})

\* C16: a probe is run only for loop index 0 with port sharing disabled and
\* only for a spec not probed before; when a server is pushed for a spec
\* its one probe is already done (none with port sharing enabled); and when
\* createListeners returns with port sharing disabled and at least one
\* loop, every declared spec was probed exactly once.
C16_ProbeOncePerSpec ==
    [][/\ probed' # probed =>
            /\ i = 0 /\ ~reusePort
            /\ ProbesOf(j + 1) = 0
            /\ probed' = Append(probed, j + 1)
       /\ (isLinux /\ PushStep) =>
            ProbesOf(j + 1) = IF reusePort THEN 0 ELSE 1
       /\ (isLinux /\ CreateReturns /\ Len(args'.ioLoops) > 0) =>
            probed' = IF reusePort THEN << >>
                      ELSE [n \in 1..Len(listeners_) |-> n]]_vars

C16_Witness ==
    /\ created /\ isLinux /\ ~reusePort
    /\ Len(args.ioLoops) = 2
    /\ Len(servers_) = 4
    /\ probed = <<1, 2>>

\* C17: the process holds the file lock only from the flock of one probe
\* to the end of that probe's block: never while it parses, makes a server,
\* is between calls, runs a start, stop or reload, or after it terminated.
C17_LockHeldOnlyInProbe ==
    /\ lockHeld => pc \in {"probe", "unlock"}
    /\ pc \in {"probe", "unlock"} => lockHeld

\* the first probe passed and its server was made, the second probe failed
C17_Witness ==
    /\ ~lockHeld
    /\ pc = "terminated" /\ fatal = "bind"
    /\ probed = <<1, 2>>
    /\ Len(servers_) = 1

\* the processes that are inside a bind probe: past the flock, the probe's
\* block not yet left
InsideProbe ==
    {p \in Peers : peerPc[p] \in {"probe", "unlock"}}
        \cup (IF pc \in {"probe", "unlock"} THEN {0} ELSE {})

\* C18: of the processes that run createListeners with port sharing
\* disabled, at most one is inside a bind probe at any time.
C18_OneProcessInsideProbe == Cardinality(InsideProbe) <= 1

\* this process waits for the lock while a peer is inside its probe
C18_Witness ==
    /\ pc = "lock"
    /\ \E p \in Peers : peerPc[p] = "unlock"

\* C19: a process gets the lock only while no other process holds it, and
\* every process that has entered createListeners in the end either
\* returns from it or has terminated: no process waits for the lock for ever.
C19_CreateListenersEnds ==
    /\ [][(pc = "lock" /\ pc' = "probe") => ~PeerHoldsLock]_vars
    /\ (pc \in {"parse", "lock", "probe", "unlock", "construct"})
            ~> (created \/ pc = "terminated")
    /\ \A p \in Peers :
            (peerPc[p] \in {"lock", "probe", "unlock", "construct"})
                ~> (peerPc[p] \in {"done", "terminated"})

\* a peer is blocked in flock while this process is inside its probe
C19_Witness ==
    /\ lockHeld
    /\ \E p \in Peers : peerPc[p] = "lock"

\* C20: of two processes that declare the same address with port sharing
\* disabled, at most one returns from createListeners with a server bound
\* to that address: in no interleaving both have passed their probe of it.
C20_OneProcessWinsAddress ==
    ~(/\ created /\ fatal = "none"
      /\ SelfBinds(PeerAddress)
      /\ \E p \in Peers : peerPc[p] = "done")
====
